---- MODULE Spec2Model ----
(***************************************************************************)
(* State-machine model of three components of react-vtk-js:                *)
(*   MultiViewRoot  (src/src/core/MultiViewRoot.js)                        *)
(*   View           (src/unnamed/part_000)                                 *)
(*   PolyData       (src/unnamed/part_001)                                 *)
(* Each component has its own specifications (SpecRoot; SpecView, SpecDoc  *)
(* for several View instances; SpecPoly, SpecWidth, SpecSynth, SpecCtx),   *)
(* and SpecSurface drives a MultiViewRoot and a View side by side; the     *)
(* variables of the components a specification does not drive stay at      *)
(* their initial value.                                                    *)
(*                                                                         *)
(* Native vtk.js objects are handles.  A handler's calls on them are kept  *)
(* as the call log of the handler that ran last; every entry is stamped    *)
(* with whether its handle was still live (not yet delete()d) at the call. *)
(***************************************************************************)
EXTENDS Integers, Sequences, FiniteSets, TLC

VARIABLES
  \* ---- MultiViewRoot
  rPhase,        \* "constructed" | "mounted" | "unmounted"
  rProps,        \* [disabled, triggerRender]
  rInitialized,  \* this.initialized
  rReleased,     \* handle -> number of delete() calls received
  rFields,       \* the handle fields of `this` that are not null
  rContainerRef, \* this.containerRef.current is an element
  rObserving,    \* the ResizeObserver observes the container
  rViewContainer,\* renderWindowView has a container
  rEventsBound,  \* interactor.getContainer() is truthy
  rTimers,       \* zero-delay timers scheduled and not yet fired
  rSize,         \* <<>> or the <<w, h>> last given to setSize
  rCalls,        \* call log of the handler that ran last
  rLast,         \* name of the handler that ran last
  rScene,        \* what is attached: [views, renderers, interactorView]
  rLayout,       \* <<>> or the <<width, height, devicePixelRatio>> onResize read last
  \* ---- View
  vPhase, vProps, vReleased, vContainerRef, vObserving, vViewContainer,
  vEventsBound, vKeyListener, vHasFocus, vManips, vMouseStack,
  vGestureStack, vAssigns, vSize, vCalls, vLast, vScene,
  vLayout,       \* <<>> or the layout <<width, height>> View.onResize read last
  \* ---- PolyData
  pPhase, pProps, pRepresentation, pDownstream, pRepCtx, pDownCtx, pData,
  pReleased, pRegistered, pError, pStrict, pCalls, pChanged, pLast, pUpdates,
  \* ---- several View instances on one document
  dViews,        \* instance -> [phase, hasFocus, released]
  dKeyListeners, \* instances whose handleKey is a keyup listener of document
  dEntered,      \* instances the pointer entered last and has not left since
  dCalls,        \* instance -> the calls the last event made on its handles
  dLast          \* the last event: [event, view, code]

rootVars == <<rPhase, rProps, rInitialized, rReleased, rFields, rContainerRef,
              rObserving, rViewContainer, rEventsBound, rTimers, rSize,
              rCalls, rLast, rScene, rLayout>>
viewVars == <<vPhase, vProps, vReleased, vContainerRef, vObserving,
              vViewContainer, vEventsBound, vKeyListener, vHasFocus, vManips,
              vMouseStack, vGestureStack, vAssigns, vSize, vCalls, vLast,
              vScene, vLayout>>
polyVars == <<pPhase, pProps, pRepresentation, pDownstream, pRepCtx, pDownCtx,
              pData, pReleased, pRegistered, pError, pStrict, pCalls, pChanged,
              pLast, pUpdates>>
docVars == <<dViews, dKeyListeners, dEntered, dCalls, dLast>>
vars == <<rootVars, viewVars, polyVars, docVars>>

\* ------------------------------------------------------------------ bounds
MaxTimers == 2     \* pending zero-delay timers
MaxTrigger == 2    \* triggerRender values 0..MaxTrigger
MaxAssigns == 2    \* assignManipulators runs per View
MaxSynthLen == 18  \* longest points array given a synthesized connectivity
MaxCells == 1     \* cell arrays a caller supplies in one props value
MaxUpdates == 2   \* update cycles of one PolyData node
MaxViews == 3     \* View instances on one document

\* -------------------------------------------------------------- call logs
Call(op, obj, arg) == [op |-> op, obj |-> obj, arg |-> arg]

\* Number of delete() calls on handle h in a log.
Deletes(log, h) ==
  Cardinality({i \in DOMAIN log : log[i].op = "delete" /\ log[i].obj = h})

\* The log with every call stamped: live iff its handle had no delete()
\* before the handler ran (released) nor earlier in the same handler.
Stamp(log, released) ==
  [i \in DOMAIN log |->
     [op |-> log[i].op, obj |-> log[i].obj, arg |-> log[i].arg,
      live |-> /\ (log[i].obj \in DOMAIN released => released[log[i].obj] = 0)
               /\ Deletes(SubSeq(log, 1, i - 1), log[i].obj) = 0]]

\* delete() counts after the handler's log.
Release(log, released) ==
  [h \in DOMAIN released |-> released[h] + Deletes(log, h)]

Max(a, b) == IF a > b THEN a ELSE b

\* What is attached to a render window and to its interactor: the views
\* (render surfaces) and renderers of the render window, the interactor's view.
NoScene == [views |-> {}, renderers |-> {}, interactorView |-> "none"]

\* addView / removeView / addRenderer / removeRenderer / setView, one call.
SceneStep(scene, c) ==
  CASE c.op = "addView" -> [scene EXCEPT !.views = @ \cup {c.arg}]
    [] c.op = "removeView" -> [scene EXCEPT !.views = @ \ {c.arg}]
    [] c.op = "addRenderer" -> [scene EXCEPT !.renderers = @ \cup {c.arg}]
    [] c.op = "removeRenderer" -> [scene EXCEPT !.renderers = @ \ {c.arg}]
    [] c.op = "setView" -> [scene EXCEPT !.interactorView = c.arg]
    [] OTHER -> scene

\* The scene after the calls of a log, in order.
RECURSIVE SceneAfter(_, _)
SceneAfter(scene, log) ==
  IF log = <<>> THEN scene
  ELSE SceneAfter(SceneStep(scene, Head(log)), Tail(log))

\* Layout sizes a container reports, and device pixel ratios (0: undefined).
Sizes == {0, 5, 300}
Ratios == {0, 1, 2}

\* ============================================================ MultiViewRoot
RootHandles == {"renderWindow", "renderWindowView", "interactor"}

RootPropsSet == [disabled : BOOLEAN, triggerRender : 0..MaxTrigger]

\* constructor: addView, setView
RootConstructorCalls ==
  <<Call("addView", "renderWindow", "renderWindowView"),
    Call("setView", "interactor", "renderWindowView")>>

RootStart(propsSet) ==
  /\ rPhase = "constructed"
  /\ rProps \in propsSet
  /\ rInitialized = FALSE
  /\ rReleased = [h \in RootHandles |-> 0]
  /\ rFields = RootHandles
  /\ rContainerRef = FALSE
  /\ rObserving = FALSE
  /\ rViewContainer = FALSE
  /\ rEventsBound = FALSE
  /\ rTimers = 0
  /\ rSize = <<>>
  /\ rCalls = Stamp(RootConstructorCalls, [h \in RootHandles |-> 0])
  /\ rLast = "constructor"
  /\ rScene = SceneAfter(NoScene, RootConstructorCalls)
  /\ rLayout = <<>>

\* onResize: the calls it makes and the size it sets.  The layout sizes of
\* Sizes are whole pixels and the ratios whole numbers, so Math.floor leaves
\* width * devicePixelRatio as it is.
RootResizeSize(w, h, dpr) ==
  LET r == IF dpr = 0 THEN 1 ELSE dpr
  IN <<Max(w * r, 10), Max(h * r, 10)>>

\* Mutant of RootOnResizeCalls: the container is not tested.
RootOnResizeCallsUnguarded(hasContainer) ==
  <<Call("setSize", "renderWindowView", "size"),
    Call("render", "renderWindow", "none")>>

RootOnResizeCalls(hasContainer) ==
  IF hasContainer
  THEN <<Call("setSize", "renderWindowView", "size"),
         Call("render", "renderWindow", "none")>>
  ELSE <<>>

\* Mutant of RootSchedules: only a larger triggerRender schedules a render.
RootSchedulesOnIncrease(props, previous, hasPrevious) ==
  hasPrevious /\ props.triggerRender > previous.triggerRender

\* update(props, previous): whether a deferred render is scheduled.
RootSchedules(props, previous, hasPrevious) ==
  hasPrevious /\ props.triggerRender # previous.triggerRender

\* render() + componentDidMount()
RootMount(w, h, dpr) ==
  /\ UNCHANGED <<viewVars, polyVars, docVars>>
  /\ rPhase = "constructed"
  /\ rPhase' = "mounted"
  /\ rContainerRef' = TRUE
  /\ IF ~rProps.disabled
     THEN /\ rViewContainer' = TRUE
          /\ rObserving' = TRUE
          /\ rSize' = RootResizeSize(w, h, dpr)
          /\ rLayout' = <<w, h, dpr>>
          /\ rInitialized' = TRUE
          /\ rCalls' = Stamp(<<Call("setContainer", "renderWindowView", "container"),
                               Call("initialize", "interactor", "none")>>
                             \o RootOnResizeCalls(TRUE), rReleased)
     ELSE /\ rCalls' = <<>>
          /\ UNCHANGED <<rViewContainer, rObserving, rSize, rLayout, rInitialized>>
  \* update(this.props) has no previous: nothing is scheduled
  /\ rTimers' = IF RootSchedules(rProps, rProps, FALSE) THEN rTimers + 1 ELSE rTimers
  /\ rLast' = "mount"
  /\ UNCHANGED <<rProps, rReleased, rFields, rEventsBound, rScene>>

\* componentDidUpdate(prevProps) -> update(props, prevProps)
RootUpdate(props) ==
  /\ UNCHANGED <<viewVars, polyVars, docVars>>
  /\ rPhase = "mounted"
  /\ rProps' = props
  /\ IF RootSchedules(props, rProps, TRUE)
     THEN rTimers < MaxTimers /\ rTimers' = rTimers + 1
     ELSE rTimers' = rTimers
  /\ rCalls' = <<>>
  /\ rLast' = "update"
  /\ UNCHANGED <<rPhase, rInitialized, rReleased, rFields, rContainerRef,
                 rObserving, rViewContainer, rEventsBound, rSize, rScene,
                 rLayout>>

\* onResize() runs: as the ResizeObserver's callback while the container is
\* observed, or called on the instance while there is no container element
\* (before mount, after unmount).
RootResize(w, h, dpr) ==
  /\ UNCHANGED <<viewVars, polyVars, docVars>>
  /\ rObserving \/ ~rContainerRef
  /\ rCalls' = Stamp(RootOnResizeCalls(rContainerRef), rReleased)
  /\ rSize' = IF rContainerRef THEN RootResizeSize(w, h, dpr) ELSE rSize
  /\ rLayout' = IF rContainerRef THEN <<w, h, dpr>> ELSE rLayout
  /\ rLast' = "resize"
  /\ UNCHANGED <<rPhase, rProps, rInitialized, rReleased, rFields,
                 rContainerRef, rObserving, rViewContainer, rEventsBound,
                 rTimers, rScene>>

\* render(): <MultiViewRootContext.Provider value={disabled ? null : this}>
RootContextValue(props) == IF props.disabled THEN "null" ELSE "this"

\* bindInteractorEvents(container), called by descendants through the context
RootBindCalls(hasInteractor, bound, container) ==
  IF hasInteractor
  THEN (IF bound THEN <<Call("unbindEvents", "interactor", "none")>> ELSE <<>>)
       \o (IF container THEN <<Call("bindEvents", "interactor", "container")>> ELSE <<>>)
  ELSE <<>>

RootBindInteractorEvents(container) ==
  /\ UNCHANGED <<viewVars, polyVars, docVars>>
  /\ rPhase = "mounted"
  /\ RootContextValue(rProps) # "null"
  /\ rCalls' = Stamp(RootBindCalls("interactor" \in rFields, rEventsBound, container),
                     rReleased)
  /\ rEventsBound' = IF "interactor" \in rFields THEN container ELSE rEventsBound
  /\ rLast' = "bind"
  /\ UNCHANGED <<rPhase, rProps, rInitialized, rReleased, rFields,
                 rContainerRef, rObserving, rViewContainer, rTimers, rSize,
                 rScene, rLayout>>

\* componentWillUnmount(): the native calls, in source order.
RootUnmountCalls(initialized, bound) ==
  (IF initialized
   THEN (IF bound THEN <<Call("unbindEvents", "interactor", "none")>> ELSE <<>>)
        \o <<Call("setContainer", "renderWindowView", "null")>>
   ELSE <<>>)
  \o <<Call("removeView", "renderWindow", "renderWindowView"),
       Call("delete", "interactor", "none"),
       Call("delete", "renderWindow", "none"),
       Call("delete", "renderWindowView", "none")>>

\* What componentWillUnmount does to the timers scheduled by update().
RootTimersAfterUnmount(timers) == timers

RootUnmount ==
  /\ UNCHANGED <<viewVars, polyVars, docVars>>
  /\ rPhase = "mounted"
  /\ rPhase' = "unmounted"
  /\ rCalls' = Stamp(RootUnmountCalls(rInitialized, rEventsBound), rReleased)
  /\ rReleased' = Release(RootUnmountCalls(rInitialized, rEventsBound), rReleased)
  /\ rObserving' = IF rInitialized THEN FALSE ELSE rObserving
  /\ rEventsBound' = IF rInitialized THEN FALSE ELSE rEventsBound
  /\ rViewContainer' = IF rInitialized THEN FALSE ELSE rViewContainer
  /\ rFields' = {}
  /\ rContainerRef' = FALSE     \* React detaches the ref of the unmounted div
  /\ rTimers' = RootTimersAfterUnmount(rTimers)
  /\ rLast' = "unmount"
  /\ rScene' = SceneAfter(rScene, RootUnmountCalls(rInitialized, rEventsBound))
  /\ UNCHANGED <<rProps, rInitialized, rSize, rLayout>>

\* The timer of update() fires: it calls the render function captured when it
\* was scheduled, whatever became of this.renderWindow since.
RootTimerFire ==
  /\ UNCHANGED <<viewVars, polyVars, docVars>>
  /\ rTimers > 0
  /\ rTimers' = rTimers - 1
  /\ rCalls' = Stamp(<<Call("render", "renderWindow", "none")>>, rReleased)
  /\ rLast' = "timer"
  /\ UNCHANGED <<rPhase, rProps, rInitialized, rReleased, rFields,
                 rContainerRef, rObserving, rViewContainer, rEventsBound, rSize,
                 rScene, rLayout>>

RootNext ==
  \/ \E w \in Sizes, h \in Sizes, dpr \in Ratios : RootMount(w, h, dpr)
  \/ \E p \in RootPropsSet : RootUpdate(p)
  \/ \E w \in Sizes, h \in Sizes, dpr \in Ratios : RootResize(w, h, dpr)
  \/ \E c \in BOOLEAN : RootBindInteractorEvents(c)
  \/ RootUnmount
  \/ RootTimerFire

\* ===================================================================== View
ViewHandles == {"renderWindow", "renderer", "openglRenderWindow", "interactor",
                "style"}

\* manipulatorFactory: the actions that name a manipulator class.
ManipulatorActions == {"Pan", "Zoom", "Roll", "Rotate", "MultiRotate", "ZoomToMouse"}

Item(button, action, shift, control, alt, scroll) ==
  [button |-> button, action |-> action, shift |-> shift, control |-> control,
   alt |-> alt, scrollEnabled |-> scroll, dragEnabled |-> "undef"]

\* View.defaultProps.interactorSettings
DefaultSettings ==
  << Item(1, "Rotate", "undef", "undef", "undef", "undef"),
     Item(2, "Pan", "undef", "undef", "undef", "undef"),
     Item(3, "Zoom", "undef", "undef", "undef", "true"),
     Item(1, "Pan", "true", "undef", "undef", "undef"),
     Item(1, "Zoom", "undef", "undef", "true", "undef"),
     Item(1, "ZoomToMouse", "undef", "true", "undef", "undef"),
     Item(1, "Roll", "true", "undef", "true", "undef") >>

\* The interactorSettings values a caller passes, by reference.
SettingsRefs == {"default", "sA", "sB", "null"}
SettingsOf(ref) ==
  CASE ref = "default" -> DefaultSettings
    [] ref = "sA" -> << Item(1, "Rotate", "undef", "undef", "undef", "undef"),
                        Item(2, "Fly", "undef", "undef", "undef", "undef"),
                        Item(3, "None", "undef", "undef", "undef", "undef"),
                        Item(2, "Pan", "true", "undef", "undef", "false") >>
    [] ref = "sB" -> << >>
    [] OTHER -> << >>
BackgroundRefs == {"bgDefault", "bgA", "null"}
ViewPropsSet == [background : BackgroundRefs, interactorSettings : SettingsRefs]

\* !!x of an optional flag
Truthy(x) == x = "true"

\* The manipulator one settings item compiles to.
NewManipulator(item) ==
  [kind |-> "mouse", action |-> item.action, button |-> item.button,
   shift |-> Truthy(item.shift), control |-> Truthy(item.control),
   alt |-> Truthy(item.alt), scrollEnabled |-> item.scrollEnabled,
   dragEnabled |-> item.dragEnabled, released |-> 0]

NewGesture ==
  [kind |-> "gesture", action |-> "Gesture", button |-> 0, shift |-> FALSE,
   control |-> FALSE, alt |-> FALSE, scrollEnabled |-> "undef",
   dragEnabled |-> "undef", released |-> 0]

\* settings.forEach of assignManipulators: the manipulators created, in order.
RECURSIVE CompileFrom(_, _)
CompileFrom(settings, i) ==
  IF i > Len(settings) THEN <<>>
  ELSE (IF settings[i].action \in ManipulatorActions
        THEN <<NewManipulator(settings[i])>> ELSE <<>>)
       \o CompileFrom(settings, i + 1)

Compile(settings) == CompileFrom(settings, 1)

\* Indices base+1 .. base+n, as a sequence.
Indices(base, n) == [k \in 1..n |-> base + k]

\* assignManipulators(style, settings) on the style's two stacks:
\* manips is every manipulator created so far.
AssignMouseStack(manips, settings) == Indices(Len(manips), Len(Compile(settings)))
AssignGestureStack(manips, gestures, settings) ==
  gestures \o <<Len(manips) + Len(Compile(settings)) + 1>>
AssignCreated(manips, settings) == manips \o Compile(settings) \o <<NewGesture>>

AssignCalls(settings) ==
  <<Call("removeAllMouseManipulators", "style", "none")>>
  \o [k \in 1..Len(Compile(settings)) |-> Call("addMouseManipulator", "style", "manipulator")]
  \o <<Call("addGestureManipulator", "style", "gesture")>>

\* update(props, previous): which of the two branches run.
ViewSetsBackground(props, previous, hasPrevious) ==
  props.background # "null" /\ (~hasPrevious \/ props.background # previous.background)
ViewAssigns(props, previous, hasPrevious) ==
  /\ props.interactorSettings # "null"
  /\ ~hasPrevious \/ props.interactorSettings # previous.interactorSettings

ViewUpdateCalls(props, previous, hasPrevious) ==
  (IF ViewSetsBackground(props, previous, hasPrevious)
   THEN <<Call("setBackground", "renderer", props.background)>> ELSE <<>>)
  \o (IF ViewAssigns(props, previous, hasPrevious)
      THEN AssignCalls(SettingsOf(props.interactorSettings)) ELSE <<>>)

\* The part of update() that changes the style.
ViewApplyUpdate(props, previous, hasPrevious) ==
  IF ViewAssigns(props, previous, hasPrevious)
  THEN /\ vAssigns < MaxAssigns
       /\ vAssigns' = vAssigns + 1
       /\ vManips' = AssignCreated(vManips, SettingsOf(props.interactorSettings))
       /\ vMouseStack' = AssignMouseStack(vManips, SettingsOf(props.interactorSettings))
       /\ vGestureStack' = AssignGestureStack(vManips, vGestureStack,
                                              SettingsOf(props.interactorSettings))
  ELSE UNCHANGED <<vAssigns, vManips, vMouseStack, vGestureStack>>

\* Mutant of ViewResizeSize: the size is set as the layout reports it.
ViewResizeSizeNoMin(w, h) == <<w, h>>

\* Math.max(width, 10), Math.max(height, 10)
ViewResizeSize(w, h) == <<Max(w, 10), Max(h, 10)>>

ViewOnResizeCalls(hasContainer) ==
  IF hasContainer
  THEN <<Call("setSize", "openglRenderWindow", "size"),
         Call("render", "renderWindow", "none")>>
  ELSE <<>>

ResetCameraCalls ==
  <<Call("resetCamera", "renderer", "none"),
    Call("getActiveCamera", "renderer", "none"),
    Call("setCenterOfRotation", "style", "focalPoint"),
    Call("render", "renderWindow", "none")>>

ViewConstructorCalls ==
  <<Call("addRenderer", "renderWindow", "renderer"),
    Call("addView", "renderWindow", "openglRenderWindow"),
    Call("setView", "interactor", "openglRenderWindow"),
    Call("initialize", "interactor", "none"),
    Call("setInteractorStyle", "interactor", "style")>>

ViewStart(propsSet) ==
  /\ vPhase = "constructed"
  /\ vProps \in propsSet
  /\ vReleased = [h \in ViewHandles |-> 0]
  /\ vContainerRef = FALSE
  /\ vObserving = FALSE
  /\ vViewContainer = FALSE
  /\ vEventsBound = FALSE
  /\ vKeyListener = FALSE
  /\ vHasFocus = FALSE
  /\ vManips = <<>>
  /\ vMouseStack = <<>>
  /\ vGestureStack = <<>>
  /\ vAssigns = 0
  /\ vSize = <<>>
  /\ vCalls = Stamp(ViewConstructorCalls, [h \in ViewHandles |-> 0])
  /\ vLast = "constructor"
  /\ vScene = SceneAfter(NoScene, ViewConstructorCalls)
  /\ vLayout = <<>>

\* render() + componentDidMount()
ViewMountCalls(props) ==
  <<Call("setContainer", "openglRenderWindow", "container"),
    Call("bindEvents", "interactor", "container")>>
  \o ViewOnResizeCalls(TRUE)
  \o ResetCameraCalls
  \o ViewUpdateCalls(props, props, FALSE)

ViewMount(w, h) ==
  /\ UNCHANGED <<rootVars, polyVars, docVars>>
  /\ vPhase = "constructed"
  /\ vPhase' = "mounted"
  /\ vContainerRef' = TRUE
  /\ vViewContainer' = TRUE
  /\ vEventsBound' = TRUE
  /\ vSize' = ViewResizeSize(w, h)
  /\ vLayout' = <<w, h>>
  /\ vObserving' = TRUE
  /\ ViewApplyUpdate(vProps, vProps, FALSE)
  /\ vKeyListener' = TRUE
  /\ vCalls' = Stamp(ViewMountCalls(vProps), vReleased)
  /\ vLast' = "mount"
  /\ UNCHANGED <<vProps, vReleased, vHasFocus, vScene>>

\* componentDidUpdate(prevProps) -> update(props, prevProps)
ViewUpdate(props) ==
  /\ UNCHANGED <<rootVars, polyVars, docVars>>
  /\ vPhase = "mounted"
  /\ vProps' = props
  /\ ViewApplyUpdate(props, vProps, TRUE)
  /\ vCalls' = Stamp(ViewUpdateCalls(props, vProps, TRUE), vReleased)
  /\ vLast' = "update"
  /\ UNCHANGED <<vPhase, vReleased, vContainerRef, vObserving, vViewContainer,
                 vEventsBound, vKeyListener, vHasFocus, vSize, vScene, vLayout>>

\* onResize() runs: as the ResizeObserver's callback while the container is
\* observed, or called on the instance while there is no container element
\* (before mount, after unmount).
ViewResize(w, h) ==
  /\ UNCHANGED <<rootVars, polyVars, docVars>>
  /\ vObserving \/ ~vContainerRef
  /\ vCalls' = Stamp(ViewOnResizeCalls(vContainerRef), vReleased)
  /\ vSize' = IF vContainerRef THEN ViewResizeSize(w, h) ELSE vSize
  /\ vLayout' = IF vContainerRef THEN <<w, h>> ELSE vLayout
  /\ vLast' = "resize"
  /\ UNCHANGED <<vPhase, vProps, vReleased, vContainerRef, vObserving,
                 vViewContainer, vEventsBound, vKeyListener, vHasFocus,
                 vManips, vMouseStack, vGestureStack, vAssigns, vScene>>

\* onMouseEnter / onMouseLeave of the rendered div
ViewEnter ==
  /\ UNCHANGED <<rootVars, polyVars, docVars>>
  /\ vPhase = "mounted"
  /\ vHasFocus' = TRUE
  /\ vCalls' = <<>>
  /\ vLast' = "enter"
  /\ UNCHANGED <<vPhase, vProps, vReleased, vContainerRef, vObserving,
                 vViewContainer, vEventsBound, vKeyListener, vManips,
                 vMouseStack, vGestureStack, vAssigns, vSize, vScene, vLayout>>

ViewLeave ==
  /\ UNCHANGED <<rootVars, polyVars, docVars>>
  /\ vPhase = "mounted"
  /\ vHasFocus' = FALSE
  /\ vCalls' = <<>>
  /\ vLast' = "leave"
  /\ UNCHANGED <<vPhase, vProps, vReleased, vContainerRef, vObserving,
                 vViewContainer, vEventsBound, vKeyListener, vManips,
                 vMouseStack, vGestureStack, vAssigns, vSize, vScene, vLayout>>

\* handleKey(e), the document's keyup listener
KeyCodes == {"KeyR", "KeyA"}

\* Mutant of HandleKeyCalls: the key is handled whether or not the pointer
\* is inside the view.
HandleKeyCallsNoFocus(hasFocus, code) ==
  IF code = "KeyR" THEN ResetCameraCalls ELSE <<>>

HandleKeyCalls(hasFocus, code) ==
  IF hasFocus /\ code = "KeyR" THEN ResetCameraCalls ELSE <<>>

ViewKeyUp(code) ==
  /\ UNCHANGED <<rootVars, polyVars, docVars>>
  /\ vKeyListener
  /\ vCalls' = Stamp(HandleKeyCalls(vHasFocus, code), vReleased)
  /\ vLast' = "key"
  /\ UNCHANGED <<vPhase, vProps, vReleased, vContainerRef, vObserving,
                 vViewContainer, vEventsBound, vKeyListener, vHasFocus,
                 vManips, vMouseStack, vGestureStack, vAssigns, vSize, vScene,
                 vLayout>>

\* Mutant of ViewUnmountCalls: the render window is released before the
\* renderer and the render surface are removed from it.
ViewUnmountCallsEarlyRelease ==
  <<Call("unbindEvents", "interactor", "none"),
    Call("setContainer", "openglRenderWindow", "null"),
    Call("delete", "renderWindow", "none"),
    Call("removeRenderer", "renderWindow", "renderer"),
    Call("removeView", "renderWindow", "openglRenderWindow"),
    Call("delete", "interactor", "none"),
    Call("delete", "renderer", "none"),
    Call("delete", "openglRenderWindow", "none")>>

\* componentWillUnmount(): the native calls, in source order.
ViewUnmountCalls ==
  <<Call("unbindEvents", "interactor", "none"),
    Call("setContainer", "openglRenderWindow", "null"),
    Call("removeRenderer", "renderWindow", "renderer"),
    Call("removeView", "renderWindow", "openglRenderWindow"),
    Call("delete", "interactor", "none"),
    Call("delete", "renderer", "none"),
    Call("delete", "renderWindow", "none"),
    Call("delete", "openglRenderWindow", "none")>>

\* The manipulators after componentWillUnmount: it releases none of them.
ViewManipsAfterUnmount(manips) == manips

ViewUnmount ==
  /\ UNCHANGED <<rootVars, polyVars, docVars>>
  /\ vPhase = "mounted"
  /\ vPhase' = "unmounted"
  /\ vKeyListener' = FALSE
  /\ vObserving' = FALSE
  /\ vEventsBound' = FALSE
  /\ vViewContainer' = FALSE
  /\ vCalls' = Stamp(ViewUnmountCalls, vReleased)
  /\ vReleased' = Release(ViewUnmountCalls, vReleased)
  /\ vManips' = ViewManipsAfterUnmount(vManips)
  /\ vContainerRef' = FALSE     \* React detaches the ref of the unmounted div
  /\ vLast' = "unmount"
  /\ vScene' = SceneAfter(vScene, ViewUnmountCalls)
  /\ UNCHANGED <<vProps, vHasFocus, vMouseStack, vGestureStack, vAssigns, vSize,
                 vLayout>>

ViewNext ==
  \/ \E w \in Sizes, h \in Sizes : ViewMount(w, h)
  \/ \E p \in ViewPropsSet : ViewUpdate(p)
  \/ \E w \in Sizes, h \in Sizes : ViewResize(w, h)
  \/ ViewEnter
  \/ ViewLeave
  \/ \E c \in KeyCodes : ViewKeyUp(c)
  \/ ViewUnmount

\* ================================== a MultiViewRoot and a View, side by side
\* Mount, resize and unmount of one MultiViewRoot and one View.
SurfaceRootProps == [disabled : BOOLEAN, triggerRender : {0}]

SurfaceNext ==
  \/ \E w \in Sizes, h \in Sizes, dpr \in Ratios : RootMount(w, h, dpr)
  \/ \E w \in Sizes, h \in Sizes, dpr \in Ratios : RootResize(w, h, dpr)
  \/ RootUnmount
  \/ \E w \in Sizes, h \in Sizes : ViewMount(w, h)
  \/ \E w \in Sizes, h \in Sizes : ViewResize(w, h)
  \/ ViewUnmount

\* ============================================= View instances on a document
\* MaxViews instances of View with the default props share one document:
\* each has its own hasFocus, handleKey, onEnter and onLeave (constructor),
\* and a keyup event of the document runs every installed listener.
Views == 1..MaxViews

\* View.defaultProps
ViewDefaultProps == [background |-> "bgDefault", interactorSettings |-> "default"]

NewView == [phase |-> "constructed", hasFocus |-> FALSE,
            released |-> [h \in ViewHandles |-> 0]]

DocEvent(event, view, code) == [event |-> event, view |-> view, code |-> code]

\* The calls of one event, which ran a handler of instance v only.
OnlyOn(views, v, log) == [w \in views |-> IF w = v THEN log ELSE <<>>]

DocStart(views) ==
  /\ dViews = [v \in views |-> NewView]
  /\ dKeyListeners = {}
  /\ dEntered = {}
  /\ dCalls = [v \in views |-> <<>>]
  /\ dLast = DocEvent("none", 0, "none")

\* componentDidMount of instance v: ... document.addEventListener('keyup', handleKey)
DocMount(v) ==
  /\ UNCHANGED <<rootVars, viewVars, polyVars>>
  /\ dViews[v].phase = "constructed"
  /\ dViews' = [dViews EXCEPT ![v].phase = "mounted"]
  /\ dKeyListeners' = dKeyListeners \cup {v}
  /\ dCalls' = OnlyOn(DOMAIN dViews, v,
                      Stamp(ViewMountCalls(ViewDefaultProps), dViews[v].released))
  /\ dLast' = DocEvent("mount", v, "none")
  /\ UNCHANGED dEntered

\* onMouseEnter of the div of instance v: this.onEnter
DocEnter(v) ==
  /\ UNCHANGED <<rootVars, viewVars, polyVars>>
  /\ dViews[v].phase = "mounted"
  /\ dViews' = [dViews EXCEPT ![v].hasFocus = TRUE]
  /\ dEntered' = dEntered \cup {v}
  /\ dCalls' = OnlyOn(DOMAIN dViews, v, <<>>)
  /\ dLast' = DocEvent("enter", v, "none")
  /\ UNCHANGED dKeyListeners

\* onMouseLeave of the div of instance v: this.onLeave
DocLeave(v) ==
  /\ UNCHANGED <<rootVars, viewVars, polyVars>>
  /\ dViews[v].phase = "mounted"
  /\ dViews' = [dViews EXCEPT ![v].hasFocus = FALSE]
  /\ dEntered' = dEntered \ {v}
  /\ dCalls' = OnlyOn(DOMAIN dViews, v, <<>>)
  /\ dLast' = DocEvent("leave", v, "none")
  /\ UNCHANGED dKeyListeners

\* A keyup event of the document: every installed handleKey runs.
DocKeyUp(code) ==
  /\ UNCHANGED <<rootVars, viewVars, polyVars>>
  /\ DOMAIN dViews # {}
  /\ dCalls' = [v \in DOMAIN dViews |->
                  IF v \in dKeyListeners
                  THEN Stamp(HandleKeyCalls(dViews[v].hasFocus, code),
                             dViews[v].released)
                  ELSE <<>>]
  /\ dLast' = DocEvent("key", 0, code)
  /\ UNCHANGED <<dViews, dKeyListeners, dEntered>>

\* componentWillUnmount of instance v: document.removeEventListener(...) ...
DocUnmount(v) ==
  /\ UNCHANGED <<rootVars, viewVars, polyVars>>
  /\ dViews[v].phase = "mounted"
  /\ dViews' = [dViews EXCEPT ![v].phase = "unmounted",
                              ![v].released = Release(ViewUnmountCalls, @)]
  /\ dKeyListeners' = dKeyListeners \ {v}
  /\ dCalls' = OnlyOn(DOMAIN dViews, v,
                      Stamp(ViewUnmountCalls, dViews[v].released))
  /\ dLast' = DocEvent("unmount", v, "none")
  /\ UNCHANGED dEntered

DocNext ==
  \/ \E v \in Views : DocMount(v)
  \/ \E v \in Views : DocEnter(v)
  \/ \E v \in Views : DocLeave(v)
  \/ \E c \in KeyCodes : DocKeyUp(c)
  \/ \E v \in Views : DocUnmount(v)

\* ================================================================= PolyData
\* The points arrays a caller passes, by reference, and their lengths.
SmallPoints == {"pE", "pA", "pF", "pC"}
LargePoints == {"pN", "pT", "pW"}
OddPoints == {"pD", "pG"}
PointsLen(ref) ==
  CASE ref = "pE" -> 0
    [] ref = "pA" -> 9        \* 3 points
    [] ref = "pF" -> 9        \* 3 points, another array than pA
    [] ref = "pC" -> 18       \* 6 points
    [] ref = "pD" -> 12       \* 4 points: not a whole number of triangles
    [] ref = "pG" -> 4        \* not a whole number of points
    [] ref = "pN" -> 196608   \* 65536 points
    [] ref = "pT" -> 196609
    [] ref = "pW" -> 196611   \* 65537 points

\* The cell arrays a caller passes, by reference ("undef": prop not given).
CellData(ref) ==
  CASE ref = "vA" -> <<1, 0>>
    [] ref = "vH" -> <<1, 65535>>
    [] ref = "lA" -> <<2, 0, 1>>
    [] ref = "lH" -> <<2, 0, 65535>>
    [] ref = "qA" -> <<3, 0, 1, 2>>
    [] ref = "sA" -> <<3, 0, 1, 2>>
    [] OTHER -> <<>>

Connectivities == {"manual", "points", "triangles", "strips"}
CellAttrs == {"verts", "lines", "polys", "strips"}
Attrs == {"points", "connectivity"} \cup CellAttrs

\* Number of cell arrays a props value supplies.
Supplied(p) == Cardinality({a \in CellAttrs : p[a] # "undef"})

\* Props of the lifecycle specification: short points arrays, every mode.
PolyPropsSet ==
  {p \in [connectivity : Connectivities, points : SmallPoints,
          verts : {"undef", "vA"}, lines : {"undef", "lA"},
          polys : {"undef", "qA"}, strips : {"undef", "sA"}, port : {0, 1}] :
     /\ Supplied(p) <= MaxCells
     /\ p.connectivity = "manual" \/ PointsLen(p.points) <= MaxSynthLen}

\* Props of the synthesis specification: no caller-supplied cells, points
\* arrays whose length is and is not a whole number of points or triangles.
SynthPropsSet ==
  {p \in [connectivity : Connectivities, points : OddPoints \cup {"pE", "pA"},
          verts : {"undef"}, lines : {"undef"}, polys : {"undef"},
          strips : {"undef"}, port : {0}] :
     PointsLen(p.points) <= MaxSynthLen}

\* Props of the index-width specification: points arrays around the
\* threshold, caller-supplied cells.
WidthPropsSet ==
  {p \in [connectivity : {"manual"}, points : LargePoints \cup {"pA"},
          verts : {"undef", "vA", "vH"}, lines : {"undef", "lH"},
          polys : {"undef", "qA"}, strips : {"undef", "sA"}, port : {0}] :
     Supplied(p) <= MaxCells}

EmptyArray == [kind |-> "empty", data |-> <<>>]

\* vtkPolyData.newInstance()
NewPolyData ==
  [points |-> [src |-> "none", len |-> 0], verts |-> EmptyArray,
   lines |-> EmptyArray, polys |-> EmptyArray, strips |-> EmptyArray]

\* The threshold of the index width: points.length > 196608
WideThreshold == 196608

\* cellFrom = points.length > 196608 ? Uint32Array.from : Uint16Array.from
\* picks the function (kind); cellFrom(cells) then calls that function as a
\* plain function, without its receiver.  %TypedArray%.from throws a
\* TypeError when its this value is not a constructor, so the call throws
\* and no array is made, for either width.
CellFrom(pointsLen, cells) ==
  [kind |-> IF pointsLen > WideThreshold THEN "Uint32" ELSE "Uint16",
   error |-> "TypeError",
   data |-> <<>>]

\* new Uint32Array(num / den): a zero-filled array.  A length that is not an
\* integer is truncated by engines that follow ToIndex and is a RangeError
\* in engines that follow the ES2015 text (strict).
NewUint32Array(num, den, strict) ==
  IF num % den # 0 /\ strict
  THEN [error |-> "RangeError", data |-> <<>>]
  ELSE [error |-> "none", data |-> [k \in 1..(num \div den) |-> 0]]

\* values[index] = value, 0-based; a write past the end is dropped.  Every
\* value written here is a point count or a point index, far below 2^32, so
\* the Uint32 conversion leaves it as it is.
Store(values, index, value) ==
  IF index + 1 \in DOMAIN values
  THEN [values EXCEPT ![index + 1] = value]
  ELSE values

\* for (let i = 0; i < nbPoints; i++) values[i + 1] = i;   nbPoints = len / 3
RECURSIVE IndexLoop(_, _, _)
IndexLoop(values, i, len) ==
  IF 3 * i < len THEN IndexLoop(Store(values, i + 1, i), i + 1, len) ELSE values

\* Mutant of SynthIndexBlock: the cell size is not written at values[0].
SynthIndexBlockNoSize(len, strict) ==
  LET a == NewUint32Array(len + 3, 3, strict)
  IN IF a.error # "none" THEN a
     ELSE [error |-> "none", data |-> IndexLoop(a.data, 0, len)]

\* case 'points' and case 'strips': [nbPoints, 0, 1, ...]
SynthIndexBlock(len, strict) ==
  LET a == NewUint32Array(len + 3, 3, strict)
  IN IF a.error # "none" THEN a
     ELSE [error |-> "none",
           data |-> IndexLoop(Store(a.data, 0, len \div 3), 0, len)]

\* for (let i = 0; i < nbPoints; i += 3) { 3, i, i + 1, i + 2 }
RECURSIVE TriangleLoop(_, _, _, _)
TriangleLoop(values, i, offset, len) ==
  IF 3 * i < len
  THEN TriangleLoop(
         Store(Store(Store(Store(values, offset, 3), offset + 1, i),
                     offset + 2, i + 1), offset + 3, i + 2),
         i + 3, offset + 4, len)
  ELSE values

\* Mutant of SynthTriangles: the loop stops one triangle early (i < nbPoints - 3).
SynthTrianglesShort(len, strict) ==
  LET a == NewUint32Array(4 * len, 9, strict)
  IN IF a.error # "none" THEN a
     ELSE [error |-> "none", data |-> TriangleLoop(a.data, 0, 0, len - 9)]

\* case 'triangles': new Uint32Array(nbPoints + nbPoints / 3)
SynthTriangles(len, strict) ==
  LET a == NewUint32Array(4 * len, 9, strict)
  IN IF a.error # "none" THEN a
     ELSE [error |-> "none", data |-> TriangleLoop(a.data, 0, 0, len)]

\* ---- update(props, previous), step by step.  The running state u is
\* [data, calls, changed, error]; a step after a throw does nothing.
UpdateStart(data) ==
  [data |-> data, calls |-> <<>>, changed |-> FALSE, error |-> "none"]

\* if (points && (!previous || points !== previous.points))
PushPoints(u, props, previous, hasPrevious) ==
  IF ~hasPrevious \/ props.points # previous.points
  THEN [u EXCEPT !.data.points = [src |-> props.points, len |-> PointsLen(props.points)],
                 !.calls = Append(@, Call("setData", "points", props.points)),
                 !.changed = TRUE]
  ELSE u

\* if (cells && (!previous || cells !== previous.cells)) ...setData(cellFrom(cells))
PushCells(u, a, props, previous, hasPrevious) ==
  IF u.error # "none" THEN u
  ELSE IF props[a] # "undef" /\ (~hasPrevious \/ props[a] # previous[a])
  THEN LET r == CellFrom(PointsLen(props.points), CellData(props[a]))
       IN IF r.error # "none" THEN [u EXCEPT !.error = r.error]
          ELSE [u EXCEPT !.data[a] = [kind |-> r.kind, data |-> r.data],
                         !.calls = Append(@, Call("setData", a, props[a])),
                         !.changed = TRUE]
  ELSE u

\* connectivity && (connectivity || !previous || connectivity !== previous.connectivity)
ConnectivityRuns(props, previous, hasPrevious) ==
  /\ props.connectivity # ""
  /\ \/ props.connectivity # ""
     \/ ~hasPrevious
     \/ props.connectivity # previous.connectivity

\* The cell block a connectivity mode writes to.
SynthTarget(mode) ==
  CASE mode = "points" -> "verts"
    [] mode = "triangles" -> "polys"
    [] mode = "strips" -> "strips"
    [] OTHER -> "none"

SynthBlock(mode, len, strict) ==
  IF mode = "triangles" THEN SynthTriangles(len, strict)
  ELSE SynthIndexBlock(len, strict)

PushConnectivity(u, props, previous, hasPrevious, strict) ==
  IF u.error # "none" THEN u
  ELSE IF ConnectivityRuns(props, previous, hasPrevious)
          /\ SynthTarget(props.connectivity) # "none"
  THEN LET r == SynthBlock(props.connectivity, PointsLen(props.points), strict)
           t == SynthTarget(props.connectivity)
       IN IF r.error # "none" THEN [u EXCEPT !.error = r.error]
          ELSE [u EXCEPT !.data[t] = [kind |-> "Uint32", data |-> r.data],
                         !.calls = Append(@, Call("setData", t, props.connectivity)),
                         !.changed = TRUE]
  ELSE u

\* if (changeDetected) { modified(); if (this.representation) dataChanged(); }
Notify(u, representation) ==
  IF u.error # "none" \/ ~u.changed THEN u
  ELSE [u EXCEPT !.calls =
          @ \o <<Call("modified", "polydata", "none")>>
            \o (IF representation # "null"
                THEN <<Call("dataChanged", representation, "none")>> ELSE <<>>)]

PolyApply(data, props, previous, hasPrevious, representation, strict) ==
  Notify(
    PushConnectivity(
      PushCells(
        PushCells(
          PushCells(
            PushCells(
              PushPoints(UpdateStart(data), props, previous, hasPrevious),
              "verts", props, previous, hasPrevious),
            "lines", props, previous, hasPrevious),
          "polys", props, previous, hasPrevious),
        "strips", props, previous, hasPrevious),
      props, previous, hasPrevious, strict),
    representation)

\* Mutant of LatchDownstream: the downstream follows the context value.
LatchDownstreamFollows(current, observed) == observed

\* render(): the two context consumers' callback.
LatchDownstream(current, observed) == IF current = "null" THEN observed ELSE current

RepCtxs == {"null", "R1"}
DownCtxs == {"null", "D1"}

PolyStart(propsSet, repCtxs, downCtxs, stricts) ==
  /\ pPhase = "constructed"
  /\ pProps \in propsSet
  /\ pRepresentation = "null"
  /\ pDownstream = "null"
  /\ pRepCtx \in repCtxs
  /\ pDownCtx \in downCtxs
  /\ pData = NewPolyData
  /\ pReleased = 0
  /\ pRegistered = <<>>
  /\ pError = "none"
  /\ pStrict \in stricts
  /\ pCalls = <<>>
  /\ pChanged = {}
  /\ pLast = "constructor"
  /\ pUpdates = 0

\* componentDidMount after update(): this.downstream.setInputData(polydata, port)
PublishCalls(downstream, port) ==
  IF downstream = "null" THEN <<>>
  ELSE <<Call("setInputData", downstream, port)>>

\* The registrations a log of calls makes at the downstream.
Registrations(calls) ==
  LET sel == SelectSeq(calls, LAMBDA c : c.op = "setInputData")
  IN [k \in DOMAIN sel |-> [down |-> sel[k].obj, port |-> sel[k].arg]]

\* Mutant of MountCalls: the dataset is published before update(this.props).
MountCallsPublishFirst(updateCalls, downstream, port) ==
  PublishCalls(downstream, port) \o updateCalls

\* componentDidMount: the calls of update(this.props), then the publication.
MountCalls(updateCalls, downstream, port) ==
  updateCalls \o PublishCalls(downstream, port)

\* Mutant of MountError: a missing downstream is skipped without an error.
MountErrorSwallowed(updateError, downstream) == updateError

\* The error componentDidMount ends with: the one update(this.props) threw,
\* or the TypeError of this.downstream.setInputData on a null downstream.
MountError(updateError, downstream) ==
  IF updateError # "none" THEN updateError
  ELSE IF downstream = "null" THEN "TypeError" ELSE "none"

\* render() + componentDidMount()
PolyMount ==
  /\ UNCHANGED <<rootVars, viewVars, docVars>>
  /\ pPhase = "constructed"
  /\ \E u \in {PolyApply(pData, pProps, pProps, FALSE, pRepCtx, pStrict)} :
     LET down == LatchDownstream(pDownstream, pDownCtx)
         calls == IF u.error = "none" THEN MountCalls(u.calls, down, pProps.port)
                  ELSE u.calls
         err == MountError(u.error, down)
     IN /\ pRepresentation' = pRepCtx
        /\ pDownstream' = down
        /\ pData' = u.data
        /\ pCalls' = calls
        /\ pRegistered' = pRegistered \o Registrations(calls)
        /\ pError' = err
        /\ pPhase' = IF err = "none" THEN "mounted" ELSE "failed"
  /\ pChanged' = Attrs
  /\ pLast' = "mount"
  /\ UNCHANGED <<pProps, pRepCtx, pDownCtx, pReleased, pStrict, pUpdates>>

\* render() + componentDidUpdate(prevProps)
PolyUpdate(props) ==
  /\ UNCHANGED <<rootVars, viewVars, docVars>>
  /\ pPhase = "mounted"
  /\ pUpdates < MaxUpdates
  /\ pUpdates' = pUpdates + 1
  /\ \E u \in {PolyApply(pData, props, pProps, TRUE, pRepCtx, pStrict)} :
        /\ pRepresentation' = pRepCtx
        /\ pDownstream' = LatchDownstream(pDownstream, pDownCtx)
        /\ pData' = u.data
        /\ pCalls' = u.calls
        /\ pError' = u.error
        /\ pPhase' = IF u.error = "none" THEN "mounted" ELSE "failed"
  /\ pProps' = props
  /\ pChanged' = {a \in Attrs : props[a] # pProps[a]}
  /\ pLast' = "update"
  /\ UNCHANGED <<pRepCtx, pDownCtx, pReleased, pRegistered, pStrict>>

\* componentWillUnmount(): this.polydata.delete()
PolyUnmount ==
  /\ UNCHANGED <<rootVars, viewVars, docVars>>
  /\ pPhase \in {"mounted", "failed"}
  /\ pPhase' = "unmounted"
  /\ pReleased' = pReleased + 1
  /\ pCalls' = <<Call("delete", "polydata", "none")>>
  /\ pLast' = "unmount"
  /\ UNCHANGED <<pProps, pRepresentation, pDownstream, pRepCtx, pDownCtx,
                 pData, pRegistered, pError, pStrict, pChanged, pUpdates>>

\* A provider above the node renders with other context values: the
\* consumers' callback of render() runs again, then componentDidUpdate with
\* the props of before.  Only a mounted node is rendered again.
PolyContext(rep, down) ==
  /\ UNCHANGED <<rootVars, viewVars, docVars>>
  /\ pPhase = "mounted"
  /\ <<rep, down>> # <<pRepCtx, pDownCtx>>
  /\ pRepCtx' = rep
  /\ pDownCtx' = down
  /\ \E u \in {PolyApply(pData, pProps, pProps, TRUE, rep, pStrict)} :
        /\ pRepresentation' = rep
        /\ pDownstream' = LatchDownstream(pDownstream, down)
        /\ pData' = u.data
        /\ pCalls' = u.calls
        /\ pError' = u.error
        /\ pPhase' = IF u.error = "none" THEN "mounted" ELSE "failed"
  /\ pChanged' = {}
  /\ pLast' = "context"
  /\ UNCHANGED <<pProps, pReleased, pRegistered, pStrict, pUpdates>>

\* Props and context values of the context specification.
CtxPropsSet ==
  [connectivity : {"manual", "points"}, points : {"pE", "pA"},
   verts : {"undef"}, lines : {"undef"}, polys : {"undef"},
   strips : {"undef"}, port : {0, 1}]
RepCtxsWide == {"null", "R1", "R2"}
DownCtxsWide == {"null", "D1", "D2"}

PolyNext ==
  \/ PolyMount
  \/ pPhase = "mounted" /\ \E p \in PolyPropsSet : PolyUpdate(p)
  \/ PolyUnmount

WidthNext ==
  \/ PolyMount
  \/ pPhase = "mounted" /\ \E p \in WidthPropsSet : PolyUpdate(p)
  \/ PolyUnmount

SynthNext ==
  \/ PolyMount
  \/ pPhase = "mounted" /\ \E p \in SynthPropsSet : PolyUpdate(p)
  \/ PolyUnmount

CtxNext ==
  \/ PolyMount
  \/ pPhase = "mounted" /\ \E p \in CtxPropsSet : PolyUpdate(p)
  \/ \E rep \in RepCtxsWide, down \in DownCtxsWide : PolyContext(rep, down)
  \/ PolyUnmount

\* =========================================================== specifications
\* Defaults: MultiViewRoot.defaultProps, PolyData.defaultProps
RootDefaultProps == [disabled |-> FALSE, triggerRender |-> 0]
PolyDefaultProps ==
  [connectivity |-> "manual", points |-> "pE", verts |-> "undef",
   lines |-> "undef", polys |-> "undef", strips |-> "undef", port |-> 0]

\* The state after construction: the component a specification drives
\* starts from any props, the other two from their default props.
RootInit == RootStart(RootPropsSet) /\ ViewStart({ViewDefaultProps})
            /\ PolyStart({PolyDefaultProps}, {"null"}, {"null"}, {FALSE})
            /\ DocStart({})
ViewInit == RootStart({RootDefaultProps}) /\ ViewStart(ViewPropsSet)
            /\ PolyStart({PolyDefaultProps}, {"null"}, {"null"}, {FALSE})
            /\ DocStart({})
\* Every array length of PolyPropsSet and WidthPropsSet that reaches
\* new Uint32Array is a whole number, so the engine's treatment of other
\* lengths (pStrict) only matters under SynthInit.
PolyInit == RootStart({RootDefaultProps}) /\ ViewStart({ViewDefaultProps})
            /\ PolyStart(PolyPropsSet, RepCtxs, DownCtxs, {FALSE})
            /\ DocStart({})
WidthInit == RootStart({RootDefaultProps}) /\ ViewStart({ViewDefaultProps})
             /\ PolyStart(WidthPropsSet, RepCtxs, DownCtxs, {FALSE})
             /\ DocStart({})
SynthInit == RootStart({RootDefaultProps}) /\ ViewStart({ViewDefaultProps})
             /\ PolyStart(SynthPropsSet, RepCtxs, DownCtxs, BOOLEAN)
             /\ DocStart({})

CtxInit == RootStart({RootDefaultProps}) /\ ViewStart({ViewDefaultProps})
           /\ PolyStart(CtxPropsSet, RepCtxsWide, DownCtxsWide, {FALSE})
           /\ DocStart({})
DocInit == RootStart({RootDefaultProps}) /\ ViewStart({ViewDefaultProps})
           /\ PolyStart({PolyDefaultProps}, {"null"}, {"null"}, {FALSE})
           /\ DocStart(Views)
SurfaceInit == RootStart(SurfaceRootProps) /\ ViewStart({ViewDefaultProps})
               /\ PolyStart({PolyDefaultProps}, {"null"}, {"null"}, {FALSE})
               /\ DocStart({})

SpecRoot == RootInit /\ [][RootNext]_vars
SpecView == ViewInit /\ [][ViewNext]_vars
SpecPoly == PolyInit /\ [][PolyNext]_vars
SpecWidth == WidthInit /\ [][WidthNext]_vars
SpecSynth == SynthInit /\ [][SynthNext]_vars
SpecCtx == CtxInit /\ [][CtxNext]_vars
SpecDoc == DocInit /\ [][DocNext]_vars
SpecSurface == SurfaceInit /\ [][SurfaceNext]_vars
\* ================================================================== claims
\* Positions of the calls with a given op in a log.
Ops(log, op) == {i \in DOMAIN log : log[i].op = op}

\* C1: in every interleaving of update, unmount and timer-fire of a
\* MultiViewRoot, no render call is made on the render window after teardown
\* released it.  (Stated as the claim states it; the code breaks it.)
C1_NoRenderAfterTeardown ==
  \A i \in DOMAIN rCalls : rCalls[i].op = "render" => rCalls[i].live

\* C2: unmounting a View makes exactly these native calls, in this order:
\* unbind interactor events, detach the render surface from the container,
\* remove the renderer from the render window, remove the render surface
\* from the render window, then release interactor, renderer, render window
\* and render surface; and no call is made on, or given, a handle that an
\* earlier call released.
C2_TeardownOrder ==
  vLast = "unmount" =>
    /\ [i \in DOMAIN vCalls |-> <<vCalls[i].op, vCalls[i].obj>>] =
         << <<"unbindEvents", "interactor">>,
            <<"setContainer", "openglRenderWindow">>,
            <<"removeRenderer", "renderWindow">>,
            <<"removeView", "renderWindow">>,
            <<"delete", "interactor">>,
            <<"delete", "renderer">>,
            <<"delete", "renderWindow">>,
            <<"delete", "openglRenderWindow">> >>
    /\ \A i \in DOMAIN vCalls :
         /\ vCalls[i].live
         /\ \A j \in 1..(i - 1) :
              vCalls[j].op = "delete" => vCalls[j].obj # vCalls[i].arg
    /\ vCalls[3].arg = "renderer" /\ vCalls[4].arg = "openglRenderWindow"

\* C2 witness: a View that was mounted has run componentWillUnmount.
C2_Witness ==
  vLast = "unmount" /\ vPhase = "unmounted" /\ Len(vCalls) = 8

\* C3: after a View (or a PolyData) is unmounted, every native object it
\* created (render window, renderer, render surface, interactor, interactor
\* style, every manipulator, the poly data) has been released exactly once.
\* (Stated as the claim states it; the code breaks it.)
C3_AllReleasedOnce ==
  /\ vPhase = "unmounted" =>
       /\ \A h \in ViewHandles : vReleased[h] = 1
       /\ \A i \in DOMAIN vManips : vManips[i].released = 1
  /\ pPhase = "unmounted" => pReleased = 1

\* C4: an update cycle of a PolyData that changes k >= 1 of the attributes
\* points, verts, lines, polys, strips, connectivity issues exactly one
\* modified() and exactly one dataChanged() to the Representation, both
\* after every attribute write of the cycle.  (Stated as the claim states
\* it; the code breaks it.)
C4_OneNotificationPerCycle ==
  (pLast = "update" /\ pChanged # {}) =>
    /\ Cardinality(Ops(pCalls, "modified")) = 1
    /\ pRepresentation # "null" => Cardinality(Ops(pCalls, "dataChanged")) = 1
    /\ \A i \in Ops(pCalls, "setData"), j \in Ops(pCalls, "modified") : i < j
    /\ \A i \in Ops(pCalls, "modified"), j \in Ops(pCalls, "dataChanged") : i < j

\* C5: an update cycle of a PolyData whose attributes are all reference-equal
\* to the previous snapshot writes nothing into the dataset, calls no
\* modified() and sends no dataChanged(), in every connectivity mode.
\* (Stated as the claim states it; the code breaks it.)
C5_NoChangeNoWrite ==
  (pLast = "update" /\ pChanged = {}) => (pCalls = <<>> /\ pError = "none")

\* C6: the dataset's content is a function of the attributes applied last,
\* whatever was applied before: it is what applying these attributes to a
\* fresh dataset gives.  (Stated as the claim states it; the code breaks it.)
C6_ContentFromLatest ==
  pPhase = "mounted" =>
    pData = PolyApply(NewPolyData, pProps, pProps, FALSE, "null", pStrict).data

\* The polygon block the spec gives for n points, n divisible by 3:
\* [3, i, i+1, i+2] for i = 0, 3, ..., n-3.
TriangleBlock(n) ==
  [k \in 1..(4 * (n \div 3)) |->
     IF (k - 1) % 4 = 0 THEN 3 ELSE 3 * ((k - 1) \div 4) + ((k - 1) % 4) - 1]

\* The attribute application of the last cycle ran to its end.
CycleCompleted ==
  pLast \in {"mount", "update"} /\ Ops(pCalls, "modified") # {}

\* C7: with connectivity 'triangles' and points of length 3n, n divisible by
\* 3, the polygon block written to the dataset is the concatenation of
\* [3, i, i+1, i+2] for i = 0, 3, ..., n-3.
C7_TrianglesBlock ==
  (CycleCompleted /\ pProps.connectivity = "triangles"
     /\ PointsLen(pProps.points) % 9 = 0) =>
    /\ pData.polys.data = TriangleBlock(PointsLen(pProps.points) \div 3)
    /\ Ops(pCalls, "setData") # {}
    /\ \E i \in Ops(pCalls, "setData") : pCalls[i].obj = "polys"

\* C7 witness: six points in 'triangles' mode gave two triangles.
C7_Witness ==
  /\ CycleCompleted /\ pProps.connectivity = "triangles"
  /\ pProps.points = "pC"
  /\ pData.polys.data = <<3, 0, 1, 2, 3, 3, 4, 5>>

\* C8: with connectivity 'points' and points of length 3n, n >= 0, the
\* vertex block written to the dataset is [n, 0, 1, ..., n-1].
C8_PointsBlock ==
  (CycleCompleted /\ pProps.connectivity = "points"
     /\ PointsLen(pProps.points) % 3 = 0) =>
    LET n == PointsLen(pProps.points) \div 3
    IN /\ pData.verts.data = [k \in 1..(n + 1) |-> IF k = 1 THEN n ELSE k - 2]
       /\ \E i \in Ops(pCalls, "setData") : pCalls[i].obj = "verts"

\* C8 witness: six points in 'points' mode gave one vertex cell of size six.
C8_Witness ==
  /\ CycleCompleted /\ pProps.connectivity = "points"
  /\ pProps.points = "pC"
  /\ pData.verts.data = <<6, 0, 1, 2, 3, 4, 5>>

\* C9: a caller-supplied cell array pushed in a cycle is stored with the
\* narrow 16-bit index width when points has at most 196608 numbers and the
\* wide 32-bit width from 196609 on, and every valid point index
\* 0..(length/3 - 1) in it is stored unchanged.  (Stated as the claim states
\* it; the code breaks it.)
C9_IndexWidth ==
  \A a \in CellAttrs :
    (pLast \in {"mount", "update"} /\ a \in pChanged /\ pProps[a] # "undef") =>
      /\ pData[a].kind = IF PointsLen(pProps.points) <= 196608 THEN "Uint16"
                         ELSE "Uint32"
      /\ Len(pData[a].data) = Len(CellData(pProps[a]))
      /\ \A i \in DOMAIN CellData(pProps[a]) :
           3 * CellData(pProps[a])[i] + 3 <= PointsLen(pProps.points) =>
             pData[a].data[i] = CellData(pProps[a])[i]

\* C10: the dataset is registered with the downstream (setInputData with the
\* port prop) at most once per node, exactly once for a node whose mount
\* completed, and only as the last call of mount, after the first attribute
\* application wrote the points and called modified().
C10_PublishAfterApply ==
  /\ Len(pRegistered) <= 1
  /\ pPhase = "mounted" => Len(pRegistered) = 1
  /\ Len(pRegistered) = 1 =>
       /\ pRegistered[1].down = pDownstream
       /\ pData.points.src # "none"
  /\ \A i \in Ops(pCalls, "setInputData") :
       /\ pLast = "mount"
       /\ i = Len(pCalls)
       /\ pCalls[i].arg = pProps.port
       /\ \E j \in Ops(pCalls, "setData") : j < i
       /\ \E j \in Ops(pCalls, "modified") : j < i

\* C10 witness: a mount that ran to its end and registered the dataset.
C10_Witness ==
  /\ pLast = "mount" /\ pPhase = "mounted"
  /\ Ops(pCalls, "setInputData") = {Len(pCalls)}
  /\ pRegistered = <<[down |-> "D1", port |-> pProps.port]>>

\* C11: mounting a PolyData while the Downstream context value is null ends
\* in an error raised by the mount itself; a mount never completes with the
\* dataset left unregistered.
C11_MissingDownstreamSurfaced ==
  /\ (pLast = "mount" /\ pDownCtx = "null") =>
       (pPhase = "failed" /\ pError # "none")
  /\ (pLast = "mount" /\ pPhase = "mounted") =>
       (pDownCtx # "null" /\ Len(pRegistered) = 1)

\* C11 witness: the attribute application ran to its end, and the mount then
\* failed on the missing downstream.
C11_Witness ==
  /\ pLast = "mount" /\ pDownCtx = "null" /\ pDownstream = "null"
  /\ Ops(pCalls, "modified") # {}
  /\ pPhase = "failed" /\ pError = "TypeError"

\* C12: when the mount of a PolyData fails on the missing Downstream, no
\* dataChanged() has been sent to the Representation, no modified() has been
\* called and no input has been registered by then.  (Stated as the claim
\* states it; the code breaks it.)
C12_NoPartialEffects ==
  (pLast = "mount" /\ pDownstream = "null" /\ pPhase = "failed") =>
    /\ Ops(pCalls, "dataChanged") = {}
    /\ Ops(pCalls, "modified") = {}
    /\ pRegistered = <<>>

\* C13: a PolyData mounted while the Downstream context value is null
\* defers the wiring: its mount completes with nothing registered, and once
\* a render pass has observed a Downstream the dataset is registered with
\* it, exactly once.  (Stated as the claim states it; the code breaks it.)
C13_DeferredWiring ==
  /\ (pLast = "mount" /\ pDownCtx = "null") =>
       (pPhase = "mounted" /\ pRegistered = <<>>)
  /\ (pPhase = "mounted" /\ pDownstream = "null") => pRegistered = <<>>
  /\ (pPhase = "mounted" /\ pDownstream # "null") =>
       (Len(pRegistered) = 1 /\ pRegistered[1].down = pDownstream)

\* Settings entries whose action names a manipulator class.
KnownEntries(settings) ==
  SelectSeq(settings, LAMBDA item : item.action \in ManipulatorActions)

\* C14: after an interactorSettings change is applied to a View, the style
\* holds one mouse manipulator per settings entry with a known action, in
\* list order and made by this change, and exactly one gesture manipulator,
\* made last by this change; no manipulator of an earlier settings value
\* remains.  (Stated as the claim states it; the code breaks it.)
C14_StackReplaced ==
  Ops(vCalls, "removeAllMouseManipulators") # {} =>
    LET known == KnownEntries(SettingsOf(vProps.interactorSettings))
        before == Len(vManips) - Len(known) - 1
    IN /\ vMouseStack = Indices(before, Len(known))
       /\ \A k \in DOMAIN known :
            /\ vManips[before + k].kind = "mouse"
            /\ vManips[before + k].action = known[k].action
            /\ vManips[before + k].button = known[k].button
       /\ vGestureStack = <<Len(vManips)>>
       /\ vManips[Len(vManips)].kind = "gesture"

\* C15: with several View instances, a KeyR keyup resets the camera of an
\* instance if and only if it is mounted and the pointer entered it last
\* without leaving; a key event makes no call on an instance that is not
\* mounted; the document has as many key listeners as there are mounted
\* instances.
C15_KeyReachesFocusedViews ==
  /\ dLast.event = "key" =>
       \A v \in DOMAIN dViews :
         /\ Ops(dCalls[v], "resetCamera") # {} <=>
              (dLast.code = "KeyR" /\ dViews[v].phase = "mounted" /\ v \in dEntered)
         /\ dViews[v].phase # "mounted" => dCalls[v] = <<>>
         /\ \A i \in DOMAIN dCalls[v] : dCalls[v][i].live
  /\ Cardinality(dKeyListeners) =
       Cardinality({v \in DOMAIN dViews : dViews[v].phase = "mounted"})

\* C15 witness: on a KeyR keyup one mounted instance under the pointer
\* reset its camera, while an instance unmounted with the pointer still
\* inside and a mounted instance the pointer is not in did nothing.
C15_Witness ==
  /\ dLast.event = "key" /\ dLast.code = "KeyR"
  /\ \E v, w \in DOMAIN dViews :
       /\ dViews[v].phase = "mounted" /\ v \in dEntered
       /\ Ops(dCalls[v], "resetCamera") # {}
       /\ dViews[w].phase = "unmounted" /\ w \in dEntered /\ dCalls[w] = <<>>
  /\ \E u \in DOMAIN dViews :
       dViews[u].phase = "mounted" /\ u \notin dEntered /\ dCalls[u] = <<>>

\* C16: onResize running while there is no container element (before
\* mount, after unmount) is a no-op in MultiViewRoot and in View: it makes
\* no setSize, no render and no other call on a native handle, and changes
\* no size, no release count and no attachment.
C16_DetachedResizeNoOp ==
  [][ /\ (rLast' = "resize" /\ ~rContainerRef') =>
           /\ rCalls' = <<>>
           /\ <<rSize, rReleased, rScene, rPhase, rFields>>' =
                <<rSize, rReleased, rScene, rPhase, rFields>>
      /\ (vLast' = "resize" /\ ~vContainerRef') =>
           /\ vCalls' = <<>>
           /\ <<vSize, vReleased, vScene, vPhase>>' =
                <<vSize, vReleased, vScene, vPhase>> ]_vars

\* C16 witness: onResize has run on an unmounted MultiViewRoot and on an
\* unmounted View.
C16_Witness ==
  /\ rLast = "resize" /\ rPhase = "unmounted" /\ ~rContainerRef
  /\ vLast = "resize" /\ vPhase = "unmounted" /\ ~vContainerRef

\* C17: the size set on the render surface at mount and at every resize
\* with a container is at least 10 x 10, whatever the layout reports, in
\* MultiViewRoot and in View; mount with a container always sets a size.
C17_MinimumSize ==
  /\ rSize # <<>> => (rSize[1] >= 10 /\ rSize[2] >= 10)
  /\ vSize # <<>> => (vSize[1] >= 10 /\ vSize[2] >= 10)
  /\ (rPhase = "mounted" /\ rInitialized) => rSize # <<>>
  /\ vPhase = "mounted" => vSize # <<>>
  /\ Ops(rCalls, "setSize") # {} => rSize # <<>>
  /\ Ops(vCalls, "setSize") # {} => vSize # <<>>

\* C17 witness: both containers reported 0 x 0 at a resize and both
\* surfaces were given 10 x 10.
C17_Witness ==
  /\ rLast = "resize" /\ rLayout # <<>> /\ vLast = "resize" /\ vLayout # <<>>
  /\ rLayout[1] = 0 /\ rLayout[2] = 0 /\ rSize = <<10, 10>>
  /\ vLayout = <<0, 0>> /\ vSize = <<10, 10>>

\* C18: the size set on the render surface is the layout size times the
\* device pixel ratio (integer part), then clamped to 10, for every whole
\* device pixel ratio >= 1, in MultiViewRoot and in View.  (Stated as the
\* claim states it; the code breaks it.)
C18_PixelRatioScaling ==
  /\ (rLayout # <<>> /\ rLayout[3] >= 1) =>
       rSize = <<Max(rLayout[1] * rLayout[3], 10), Max(rLayout[2] * rLayout[3], 10)>>
  /\ vLayout # <<>> =>
       \A dpr \in Ratios \ {0} :
         vSize = <<Max(vLayout[1] * dpr, 10), Max(vLayout[2] * dpr, 10)>>

\* C19: from construction to unmount, a MultiViewRoot and a View each have
\* exactly one render surface attached to the render window, the interactor
\* bound to that surface, and at least one renderer attached to the render
\* window.  (Stated as the claim states it; the code breaks it.)
C19_OneSurfaceOneInteractor ==
  /\ rPhase \in {"constructed", "mounted"} =>
       /\ rScene.views = {"renderWindowView"}
       /\ rScene.interactorView = "renderWindowView"
       /\ Cardinality(rScene.renderers) >= 1
  /\ vPhase \in {"constructed", "mounted"} =>
       /\ vScene.views = {"openglRenderWindow"}
       /\ vScene.interactorView = "openglRenderWindow"
       /\ Cardinality(vScene.renderers) >= 1

\* The cells of a block from position pos on are complete, [size, i0, ...,
\* i(size-1)], and each index is below the point count len / 3.
RECURSIVE CompleteCells(_, _, _)
CompleteCells(block, pos, len) ==
  IF pos > Len(block) THEN TRUE
  ELSE /\ pos + block[pos] <= Len(block)
       /\ \A k \in (pos + 1)..(pos + block[pos]) : 3 * block[k] < len
       /\ CompleteCells(block, pos + block[pos] + 1, len)

\* C20: for every points length, the cell block synthesized in modes
\* 'points', 'triangles' and 'strips' is a sequence of complete cells whose
\* point indices are all below the point count; no partial cell is written
\* when the point count is not a multiple of 3 in 'triangles' mode.
\* (Stated as the claim states it; the code breaks it.)
C20_CompleteCells ==
  (CycleCompleted /\ pPhase = "mounted"
     /\ SynthTarget(pProps.connectivity) # "none") =>
    CompleteCells(pData[SynthTarget(pProps.connectivity)].data, 1,
                  PointsLen(pProps.points))

\* C21: an update of a MultiViewRoot schedules one deferred render exactly
\* when its triggerRender differs from the value of the props before,
\* larger or smaller, and none when it is the same; mount and every other
\* handler schedule none.
C21_RenderScheduledOnChange ==
  [][ /\ rLast' = "update" =>
           rTimers' = rTimers + (IF rProps'.triggerRender # rProps.triggerRender
                                 THEN 1 ELSE 0)
      /\ rLast' = "timer" => rTimers' = rTimers - 1
      /\ rLast' \notin {"update", "timer"} => rTimers' = rTimers ]_vars

\* C21 witness: two renders are pending after an update that lowered
\* triggerRender to 0.
C21_Witness ==
  rLast = "update" /\ rPhase = "mounted" /\ rProps.triggerRender = 0
  /\ rTimers = 2

\* C22: once a render pass of a PolyData has observed a Downstream, no
\* later pass changes the node's downstream reference, whatever Downstream
\* the context holds then; the representation reference is the context
\* value of the latest pass; dataChanged() goes to that Representation only,
\* and the dataset is registered with the first Downstream only.
C22_DownstreamLatched ==
  [][ /\ pDownstream # "null" => pDownstream' = pDownstream
      /\ pLast' # "constructor" => pRepresentation' = pRepCtx'
      /\ \A i \in Ops(pCalls', "dataChanged") : pCalls'[i].obj = pRepCtx'
      /\ \A k \in DOMAIN pRegistered' : pRegistered'[k].down = pDownstream'
      /\ pRegistered # <<>> => pRegistered' = pRegistered ]_vars

\* C22 witness: a node registered with D1 was rendered again under D2 and
\* R2: it kept D1, took R2 and sent dataChanged() to R2.
C22_Witness ==
  /\ pLast = "context" /\ pPhase = "mounted"
  /\ pDownCtx = "D2" /\ pDownstream = "D1"
  /\ pRepCtx = "R2" /\ pRepresentation = "R2"
  /\ \E i \in Ops(pCalls, "dataChanged") : pCalls[i].obj = "R2"
  /\ Len(pRegistered) = 1 /\ pRegistered[1].down = "D1"

\* C23: whatever the disabled prop was at mount and became later, unmount
\* of a MultiViewRoot releases interactor, render window and render surface
\* once each and detaches the container exactly when mount bound it
\* (initialized), leaving no observer, no bound interactor events and no
\* container behind; a root mounted disabled binds no container and
\* observes nothing; a root that is not initialized gives descendants a
\* null context value.  (Stated as the claim states it; the code breaks it.)
C23_DisabledRoot ==
  /\ rPhase = "unmounted" =>
       /\ \A h \in RootHandles : rReleased[h] = 1
       /\ ~rObserving /\ ~rEventsBound /\ ~rViewContainer
  /\ rLast = "unmount" =>
       ((\E i \in Ops(rCalls, "setContainer") : rCalls[i].arg = "null")
          <=> rInitialized)
  /\ (rPhase # "constructed" /\ ~rInitialized) =>
       (~rViewContainer /\ ~rObserving /\ rSize = <<>>)
  /\ (rPhase = "mounted" /\ ~rInitialized) => RootContextValue(rProps) = "null"
====
